---- MODULE Spec2Model ----
(***************************************************************************)
(* Request handlers of the cloudomate gateway (src/handlers.py).           *)
(*                                                                         *)
(* The server is a single-threaded Tornado application.  A handler runs    *)
(* atomically from the arrival of its request up to the point where it     *)
(* finishes the response or suspends on `yield gen.Task(script.execute)`;  *)
(* a suspended handler is resumed atomically when the child process ends.  *)
(* Each of these two kinds of step is one action below.                    *)
(*                                                                         *)
(* Text is modelled as a sequence of tokens.  The tokens that the code     *)
(* looks at (the sentinel, '=', white space, the quotes and the letter b   *)
(* that the write path rewrites, the backslash and the line feed) are      *)
(* tokens of their own; every other token stands for a run of characters   *)
(* that contains none of these and does not end in the letter b.           *)
(***************************************************************************)
EXTENDS Integers, Sequences, FiniteSets, TLC

\* ------------------------------------------------------------------ bounds
\* Number of handlers that can be suspended on a child process at a time.
MaxInFlight == 2
\* Lines of a captured output, and tokens of one line, in SpecExtract.
MaxLines == 2
MaxLineLen == 4

\* ------------------------------------------------------------------ tokens
\* The literal 'cloudomatethecloudgarage_return_value', as one token.
SENTINEL == "S"
SQ == "'"
DQ == "\""
BS == "\\"
NL == "\n"
SP == " "
EQ == "="
\* A byte that is not valid UTF-8.
BADBYTE == "\\xff"
None == "None"

Whitespace == {SP, NL}

\* s[i..j] of Python (1-based here), empty when i > j.
Slice(s, i, j) == SubSeq(s, i, j)

RECURSIVE Flatten(_)
Flatten(ss) == IF ss = << >> THEN << >> ELSE Head(ss) \o Flatten(Tail(ss))

Contains(s, t) == \E i \in 1..Len(s) : s[i] = t

\* str.startswith(prefix) for a one-token prefix.
startswith(s, t) == Len(s) >= 1 /\ s[1] = t

\* str.replace(t, "") for a one-token t: every occurrence is removed.
replace_with_empty(s, t) == SelectSeq(s, LAMBDA x : x # t)

\* str.strip(): leading and trailing white space removed.
RECURSIVE lstrip(_)
lstrip(s) == IF s # << >> /\ Head(s) \in Whitespace THEN lstrip(Tail(s)) ELSE s
RECURSIVE rstrip(_)
rstrip(s) ==
    IF s # << >> /\ s[Len(s)] \in Whitespace THEN rstrip(Slice(s, 1, Len(s) - 1)) ELSE s
strip(s) == rstrip(lstrip(s))

\* str.split(sep) for a one-token sep: the list of the parts between all
\* occurrences of sep (k occurrences give k + 1 parts).
RECURSIVE split(_, _)
split(s, sep) ==
    IF ~Contains(s, sep) THEN << s >>
    ELSE LET i == CHOOSE j \in 1..Len(s) : s[j] = sep /\ \A m \in 1..(j - 1) : s[m] # sep
         IN  << Slice(s, 1, i - 1) >> \o split(Slice(s, i + 1, Len(s)), sep)

\* bytes.decode(): UTF-8; raises UnicodeDecodeError on an invalid byte.
CanDecode(line) == ~Contains(line, BADBYTE)

\* ------------------------------------------------- Return-Value Extractor
\* A Python dict is the set of its <<key, value>> items, one per key.
DictKeys(d) == {p[1] : p \in d}
DictGet(d, k) == (CHOOSE p \in d : p[1] = k)[2]
\* Mutant: a key that is already there keeps its first value.
DictSet_keep_first(d, key, value) ==
    IF key \in DictKeys(d) THEN d ELSE d \cup {<<key, value>>}
\* d[key] = value
DictSet(d, key, value) == {p \in d : p[1] # key} \cup {<<key, value>>}

\* The items of one sentinel line: temp.split('=') with every item stripped.
LineItems(lineone) ==
    LET temp  == strip(replace_with_empty(lineone, SENTINEL))
        parts == split(temp, EQ)
    IN  [i \in 1..Len(parts) |-> strip(parts[i])]

\* The loop of find_return_values from line i on, return_values being rv.
\* `key, value = [...]` raises ValueError unless the list has two items.
RECURSIVE frv_loop(_, _, _)
frv_loop(output, i, rv) ==
    IF i > Len(output) THEN [exc |-> "none", values |-> rv]
    ELSE IF ~CanDecode(output[i]) THEN [exc |-> "UnicodeDecodeError", values |-> {}]
    ELSE IF startswith(output[i], SENTINEL)
         THEN LET items == LineItems(output[i])
              IN  IF Len(items) # 2 THEN [exc |-> "ValueError", values |-> {}]
                  ELSE frv_loop(output, i + 1, DictSet(rv, items[1], items[2]))
         ELSE frv_loop(output, i + 1, rv)

find_return_values(output) == frv_loop(output, 1, {})

\* ------------------------------------------------------------ write path
\* repr() of a str or bytes object: single quotes, unless the text holds a
\* single quote and no double quote; backslash, line feed, the chosen quote
\* and non-printable bytes are escaped; a bytes literal is prefixed by b.
ReprQuote(s) == IF Contains(s, SQ) /\ ~Contains(s, DQ) THEN DQ ELSE SQ
ReprToken(t, q) ==
    IF t = BS THEN <<BS, BS>>
    ELSE IF t = NL THEN <<BS, "n">>
    ELSE IF t = BADBYTE THEN <<BS, "xff">>
    ELSE IF t = q THEN <<BS, t>>
    ELSE <<t>>
py_repr(s, isbytes) ==
    LET q == ReprQuote(s)
    IN  (IF isbytes THEN <<"b">> ELSE << >>) \o <<q>>
        \o Flatten([i \in 1..Len(s) |-> ReprToken(s[i], q)]) \o <<q>>

\* chunk.replace("b'", '"'), left to right, non-overlapping.
RECURSIVE replace_b_quote(_)
replace_b_quote(s) ==
    IF Len(s) < 2 THEN s
    ELSE IF s[1] = "b" /\ s[2] = SQ THEN <<DQ>> \o replace_b_quote(Slice(s, 3, Len(s)))
    ELSE <<s[1]>> \o replace_b_quote(Tail(s))
\* chunk.replace("'", '"')
replace_quote(s) == [i \in 1..Len(s) |-> IF s[i] = SQ THEN DQ ELSE s[i]]

\* What write() puts on the wire for one str or bytes value of the dict:
\* chunk after str(), after the first and after the second replace().
write_value(s, isbytes) ==
    CHOOSE chunk \in
        { replace_quote(c2) : c2 \in
            { replace_b_quote(c1) : c1 \in { py_repr(s, isbytes) } } } : TRUE

\* The JSON string literal that denotes the text s.
JsonToken(t) ==
    IF t = BS THEN <<BS, BS>>
    ELSE IF t = NL THEN <<BS, "n">>
    ELSE IF t = DQ THEN <<BS, DQ>>
    ELSE IF t = BADBYTE THEN <<BS, "ufffd">>
    ELSE <<t>>
JsonString(s) == <<DQ>> \o Flatten([i \in 1..Len(s) |-> JsonToken(s[i])]) \o <<DQ>>

\* --------------------------------------------------- configuration, inputs
\* config['passfile'] (None or the path of an htpasswd file), config['force_json'].
Configs == [passfile : {None, "htpasswd"}, force_json : BOOLEAN]
\* The users of the htpasswd file.
PassfileUsers == {<<"alice", "secret">>}

\* A script of the collection: its name, declared method, output mode, tags.
Script(n, m, o, t) == [name |-> n, http_method |-> m, output |-> o, tags |-> t]
NoScript == Script(None, None, None, {})
\* Contents the script directory can have when the collection is built.
Registries ==
    { { Script("alpha", "get", "combined", {"a", "b"}),
        Script("beta", "post", "separate", {"a"}) },
      { Script("alpha", "delete", "separate", {"c"}) },
      { Script("beta", "put", "combined", {}) },
      { Script("alpha", "post", "combined", {"b"}),
        Script("beta", "get", "separate", {"c"}) },
      { Script("alpha", "put", "separate", {"a"}),
        Script("beta", "delete", "combined", {"b"}) } }

Names == {"alpha", "beta"}
Routes == {"/script_names", "/scripts", "/scripts/{name}", "/reload"}
Verbs == {"GET", "POST", "PUT", "DELETE", "OPTIONS"}

\* The Content-Type header: absent, or its text as tokens, the first token
\* of a text that begins with application/json being JSON.
JSON == "application/json"
NoHeader == <<None>>
ContentTypes ==
    { NoHeader, <<JSON>>, <<JSON, "; charset=UTF-8">>, <<JSON, "x">>,
      <<"text/plain">> }

\* The Authorization header: absent, another scheme, or "Basic " followed by
\* the base64 text of user:password.
AuthHeader(s, u, pw) == [scheme |-> s, user |-> u, password |-> pw]
NoAuthHeader == AuthHeader(None, "", "")
AuthHeaders ==
    { NoAuthHeader, AuthHeader("Bearer", "", ""),
      AuthHeader("Basic", "alice", "secret"), AuthHeader("Basic", "alice", "wrong") }

\* A Python value with its type.  tornado gives request.body as bytes and
\* header values as str.
Py(t, x) == [type |-> t, text |-> x]
PyNone == Py("NoneType", "")
Bodies == { Py("bytes", ""), Py("bytes", "{}"), Py("bytes", "{") }

\* A query argument: absent, or present with its (comma-separated) value.
Arg(p, v) == [present |-> p, value |-> v]
NoArg == Arg(FALSE, << >>)
QueryArgs ==
    { [tags |-> NoArg, not_tags |-> NoArg, any_tags |-> NoArg],
      [tags |-> Arg(TRUE, <<"a", ",", "b">>), not_tags |-> Arg(TRUE, <<"c">>), any_tags |-> NoArg],
      [tags |-> Arg(TRUE, << >>), not_tags |-> NoArg, any_tags |-> Arg(TRUE, <<"a">>)] }
NoArgs == [tags |-> NoArg, not_tags |-> NoArg, any_tags |-> NoArg]

\* The requests: a script name only under /scripts/{name}, where all five
\* verbs are sent (GET and POST elsewhere); query arguments only on a GET of
\* the two listing routes.
Requests ==
    { rq \in [route : Routes, verb : Verbs, script_name : Names \cup {None},
              ctype : ContentTypes, auth : AuthHeaders, body : Bodies, args : QueryArgs] :
        /\ (rq.route = "/scripts/{name}") <=> (rq.script_name # None)
        /\ (rq.route # "/scripts/{name}") => (rq.verb \in {"GET", "POST"})
        /\ (rq.route \notin {"/script_names", "/scripts"} \/ rq.verb # "GET")
               => (rq.args = NoArgs) }

\* What a child process can leave behind: captured lines and an exit code.
StdoutSamples ==
    { << >>,
      << <<SENTINEL, SP, "k", SP, EQ, SP, "v", NL>> >>,
      << <<"h", NL>>, <<SENTINEL, "k", EQ, "v", NL>>, <<SENTINEL, "k", EQ, "w", NL>> >>,
      << <<SENTINEL, "k", EQ, "b", NL>> >>,
      << <<SENTINEL, "k", EQ, "v", EQ, "w", NL>> >>,
      << <<SENTINEL, "k", NL>> >>,
      << <<BADBYTE, NL>> >> }
StderrSamples == { << >>, << <<"e", NL>> >> }
Retcodes == {0, 1}

\* ------------------------------------------------------------- responses
\* http.client.responses
responses(code) ==
    CASE code = 400 -> <<"Bad Request">>
      [] code = 401 -> <<"Unauthorized">>
      [] code = 404 -> <<"Not Found">>
      [] code = 405 -> <<"Method Not Allowed">>
      [] OTHER      -> <<"Internal Server Error">>

upper(m) ==
    CASE m = "get" -> "GET" [] m = "post" -> "POST" [] m = "put" -> "PUT"
      [] m = "delete" -> "DELETE" [] OTHER -> m
lower(v) ==
    CASE v = "GET" -> "get" [] v = "POST" -> "post" [] v = "PUT" -> "put"
      [] v = "DELETE" -> "delete" [] v = "OPTIONS" -> "options" [] OTHER -> v

\* The message of an error that carries none (log_message is None).
NoMessage == <<None>>
Msg400 == <<"This application only support json, please set the http header Content-Type to application/json">>
Msg404(script_name) == <<"Script with name ", SQ, script_name, SQ, " not found">>
Msg405(script_name, m) ==
    <<"Wrong HTTP method for script ", SQ, script_name, SQ, ". Use ", SQ, upper(m), SQ>>

NoChunk == [kind |-> "none"]

\* str(None) is None, without quotes.
write_text(s) == IF s = NoMessage THEN <<None>> ELSE write_value(s, FALSE)

\* BaseHandler.write for a dict: the dict with every str and bytes value as
\* the text that str(), the two replace() calls and the json round trip
\* leave of it.  Numbers are written as they are.
write(chunk) ==
    CASE chunk.kind = "error" ->
           [kind |-> "error", code |-> chunk.code, type |-> write_text(chunk.type),
            message |-> write_text(chunk.message)]
      [] chunk.kind = "result" ->
           [kind |-> "result", keys |-> chunk.keys, retcode |-> chunk.retcode,
            stdout |-> [i \in 1..Len(chunk.stdout) |-> write_value(chunk.stdout[i], TRUE)],
            stderr |-> [i \in 1..Len(chunk.stderr) |-> write_value(chunk.stderr[i], TRUE)],
            return_values |->
                {<<write_value(p[1], FALSE), write_value(p[2], FALSE)>> : p \in chunk.return_values}]
      [] chunk.kind = "script" ->
           [kind |-> "script", name |-> write_value(<<chunk.script.name>>, FALSE),
            http_method |-> write_value(<<chunk.script.http_method>>, FALSE),
            output |-> write_value(<<chunk.script.output>>, FALSE),
            tags |-> {write_value(<<t>>, FALSE) : t \in chunk.script.tags}]
      [] chunk.kind = "script_names" ->
           [kind |-> "script_names", names |-> {write_value(<<n>>, FALSE) : n \in chunk.names}]
      [] chunk.kind = "scripts" ->
           [kind |-> "scripts", names |-> {write_value(<<d.name>>, FALSE) : d \in chunk.scripts}]
      [] chunk.kind = "status" ->
           [kind |-> "status", status |-> write_value(<<chunk.status>>, FALSE)]
      [] OTHER -> chunk

\* A response as the handler leaves it: the status, the headers this code
\* set, the chunk handed to write, what write made of it, and how many times
\* finish was called.
Response(st, hd, ch, n) ==
    [status |-> st, headers |-> hd, chunk |-> ch, wire |-> write(ch), finished |-> n]
NoResponse == Response(0, {}, NoChunk, 0)

JsonHeader == <<"Content-Type", "application/json; charset=UTF-8">>

\* write_error, reached through tornado's send_error: the headers set so far
\* are cleared, the error dict is written and the request finished.
write_error(status_code, message) ==
    Response(status_code, {JsonHeader},
             [kind |-> "error", code |-> status_code, type |-> responses(status_code),
              message |-> message], 1)

\* auth_challenge
auth_challenge == Response(401, {<<"WWW-Authenticate", "Basic realm=cloudomate">>}, NoChunk, 1)

\* finish(dict) of a handler that raised nothing: status 200.
finish(headers, chunk) == Response(200, headers \cup {JsonHeader}, chunk, 1)

\* ---------------------------------------------------------------- prepare
\* json.loads of the request body: a dict for "{}", ValueError otherwise
\* (the empty text and the truncated "{" are not JSON documents).
json_loads(body) ==
    IF body.text = "{}" THEN [exc |-> "none", value |-> "{}"]
    ELSE [exc |-> "ValueError", value |-> "{}"]

\* request.headers.get(name, default): the default for an absent header.
headers_get(header, default) == IF header = NoHeader THEN default ELSE header

\* handle_params.  `self.request.body in [None, ""]` compares the body, a
\* bytes object, with None and with the empty str.
handle_params(cfg, rq) ==
    LET content_type == headers_get(rq.ctype, <<JSON>>)
    IN  IF startswith(content_type, JSON) \/ cfg.force_json
        THEN IF rq.body \in {PyNone, Py("str", "")}
             THEN [exc |-> "none", params |-> "{}"]
             ELSE LET v == json_loads(rq.body)
                  IN  [exc |-> v.exc, params |-> v.value]
        ELSE [exc |-> "HTTPError400", params |-> "{}"]

\* base64.decodestring: its argument has to be bytes-like; a str raises
\* TypeError.
base64_decodestring(x) ==
    IF x.type = "bytes" THEN [exc |-> "none", value |-> Py("bytes", x.text)]
    ELSE [exc |-> "TypeError", value |-> x]

\* auth_decoded.split(':', 2): the separator is a str, so splitting a bytes
\* object raises TypeError.
split_colon(x) == IF x.type = "str" THEN "none" ELSE "TypeError"

\* is_user_authenticated: the user is in the password file and the password
\* is the user's.
is_user_authenticated(username, password) == <<username, password>> \in PassfileUsers

\* handle_auth: how the gate ends (pass: the handler goes on; challenge: the
\* request is finished with 401; raise: an exception leaves prepare) and
\* whether the password file was consulted.
Gate(o, c) == [outcome |-> o, consulted |-> c]
\* Mutant: the test for an unset passfile is missing.
handle_auth_always(cfg, rq) ==
    IF rq.auth.scheme # "Basic" THEN Gate("challenge", FALSE)
    ELSE IF base64_decodestring(Py("str", "b64")).exc # "none" THEN Gate("raise", FALSE)
    ELSE IF ~is_user_authenticated(rq.auth.user, rq.auth.password)
         THEN Gate("challenge", TRUE)
         ELSE Gate("pass", TRUE)
handle_auth(cfg, rq) ==
    IF cfg.passfile = None THEN Gate("pass", FALSE)
    ELSE IF rq.auth.scheme # "Basic" THEN Gate("challenge", FALSE)
    ELSE LET auth_decoded == base64_decodestring(Py("str", "b64"))
         IN  IF auth_decoded.exc # "none" THEN Gate("raise", FALSE)
             ELSE IF split_colon(auth_decoded.value) # "none" THEN Gate("raise", FALSE)
             ELSE IF ~is_user_authenticated(rq.auth.user, rq.auth.password)
                  THEN Gate("challenge", TRUE)
                  ELSE Gate("pass", TRUE)

\* prepare, and what tornado does with its outcome: an HTTPError becomes its
\* status, any other exception 500, and a request that prepare finished is
\* not handed to the verb method.  go: the verb method runs.
Prepared(g, r, pa, st) == [go |-> g, response |-> r, params |-> pa, steps |-> st]
\* Mutant: a request that the challenge finished is handed to its verb
\* method all the same.
prepare_finished_unchecked(cfg, rq) ==
    LET p == handle_params(cfg, rq)
        a == handle_auth(cfg, rq)
        seen == <<"handle_params", "handle_auth">>
               \o (IF a.consulted THEN <<"is_user_authenticated">> ELSE << >>)
    IN  IF p.exc = "HTTPError400"
        THEN Prepared(FALSE, write_error(400, Msg400), "{}", <<"handle_params">>)
        ELSE IF p.exc # "none"
        THEN Prepared(FALSE, write_error(500, << >>), "{}", <<"handle_params">>)
        ELSE IF a.outcome = "challenge"
        THEN Prepared(TRUE, auth_challenge, p.params, seen \o <<"auth_challenge">>)
        ELSE IF a.outcome = "raise"
        THEN Prepared(FALSE, write_error(500, << >>), p.params, seen)
        ELSE Prepared(TRUE, NoResponse, p.params, seen)
prepare(cfg, rq) ==
    LET p == handle_params(cfg, rq)
        a == handle_auth(cfg, rq)
        seen == <<"handle_params", "handle_auth">>
               \o (IF a.consulted THEN <<"is_user_authenticated">> ELSE << >>)
    IN  IF p.exc = "HTTPError400"
        THEN Prepared(FALSE, write_error(400, Msg400), "{}", <<"handle_params">>)
        ELSE IF p.exc # "none"
        THEN Prepared(FALSE, write_error(500, << >>), "{}", <<"handle_params">>)
        ELSE IF a.outcome = "challenge"
        THEN Prepared(FALSE, auth_challenge, p.params, seen \o <<"auth_challenge">>)
        ELSE IF a.outcome = "raise"
        THEN Prepared(FALSE, write_error(500, << >>), p.params, seen)
        ELSE Prepared(TRUE, NoResponse, p.params, seen)

\* ------------------------------------------------------------- get_script
\* self.settings['scripts'].get(script_name, None)
registry_get(registry, script_name) ==
    IF \E d \in registry : d.name = script_name
    THEN CHOOSE d \in registry : d.name = script_name
    ELSE NoScript

Found(e, sc, m) == [exc |-> e, script |-> sc, message |-> m]
\* Mutant: the declared method is not compared with the handler's.
get_script_any_method(registry, script_name, http_method) ==
    LET script == registry_get(registry, script_name)
    IN  IF script = NoScript THEN Found(404, NoScript, Msg404(script_name))
        ELSE Found(0, script, << >>)
\* Mutant: a missing script is reported as a wrong method.
get_script_missing_is_405(registry, script_name, http_method) ==
    LET script == registry_get(registry, script_name)
    IN  IF script = NoScript THEN Found(405, NoScript, Msg405(script_name, http_method))
        ELSE IF http_method = "options" THEN Found(0, script, << >>)
        ELSE IF script.http_method # http_method
        THEN Found(405, NoScript, Msg405(script_name, script.http_method))
        ELSE Found(0, script, << >>)
\* Mutant: no exemption for 'options'.
get_script_options_enforced(registry, script_name, http_method) ==
    LET script == registry_get(registry, script_name)
    IN  IF script = NoScript THEN Found(404, NoScript, Msg404(script_name))
        ELSE IF script.http_method # http_method
        THEN Found(405, NoScript, Msg405(script_name, script.http_method))
        ELSE Found(0, script, << >>)
get_script(registry, script_name, http_method) ==
    LET script == registry_get(registry, script_name)
    IN  IF script = NoScript THEN Found(404, NoScript, Msg404(script_name))
        ELSE IF http_method = "options" THEN Found(0, script, << >>)
        ELSE IF script.http_method # http_method
        THEN Found(405, NoScript, Msg405(script_name, script.http_method))
        ELSE Found(0, script, << >>)

\* ------------------------------------------------------- Tag Query Parser
\* value.split(','): the tags between the commas; the empty value gives the
\* list of one empty tag.
split_commas(v) ==
    LET parts == split(v, ",")
    IN  {IF parts[i] = << >> THEN "" ELSE parts[i][1] : i \in 1..Len(parts)}

NoTags == [tags |-> {}, not_tags |-> {}, any_tags |-> {}]
\* The loop over 'tags', 'not_tags', 'any_tags': the first argument that is
\* present is split and the loop left.
parse_tags(args) ==
    IF args.tags.present THEN [NoTags EXCEPT !.tags = split_commas(args.tags.value)]
    ELSE IF args.not_tags.present
    THEN [NoTags EXCEPT !.not_tags = split_commas(args.not_tags.value)]
    ELSE IF args.any_tags.present
    THEN [NoTags EXCEPT !.any_tags = split_commas(args.any_tags.value)]
    ELSE NoTags

\* The scripts of the collection that a tag query selects.
selected(registry, q) ==
    { d \in registry :
        /\ q.tags \subseteq d.tags
        /\ q.not_tags \cap d.tags = {}
        /\ (q.any_tags = {} \/ q.any_tags \cap d.tags # {}) }

\* ------------------------------------------------------------------ state
\* config:   the configuration the server was started with
\* scripts:  self.settings['scripts'], the collection in use
\* waiting:  the handlers suspended on `yield gen.Task(script.execute, ...)`
\* h:        the handler step the IOLoop is running: the request it serves,
\*           what it did (steps), the tag query it parsed and the response
\*           as it leaves it; "none" between two steps
\* output, return_values: argument and result of find_return_values when the
\*           function is exercised on its own (SpecExtract)
VARIABLES config, scripts, waiting, h, output, return_values
vars == <<config, scripts, waiting, h, output, return_values>>

\* Request data a resumed handler does not look at again.
NotRead == "-"
Resumed(rq) ==
    [rq EXCEPT !.ctype = <<NotRead>>, !.auth = AuthHeader(NotRead, "", ""),
               !.body = Py(NotRead, ""), !.args = NoArgs]
NoRequest ==
    [route |-> None, verb |-> None, script_name |-> None, ctype |-> <<NotRead>>,
     auth |-> AuthHeader(NotRead, "", ""), body |-> Py(NotRead, ""), args |-> NoArgs]

Step(kind, rq, slot, resp, steps, script) ==
    [step |-> kind, rq |-> rq, slot |-> slot, response |-> resp, steps |-> steps,
     script |-> script, tags |-> NoTags]

Slots == 1..MaxInFlight
IdleSlot == [busy |-> FALSE, rq |-> NoRequest, script |-> NoScript, params |-> "{}"]
FreeSlots == {i \in Slots : ~waiting[i].busy}
FirstFree == CHOOSE i \in FreeSlots : \A j \in FreeSlots : i <= j

NotExtracted == [exc |-> "unset", values |-> {}]

Init ==
    /\ config \in Configs
    /\ scripts \in Registries
    /\ waiting = [i \in Slots |-> IdleSlot]
    /\ h = Step("none", NoRequest, 0, NoResponse, << >>, NoScript)
    /\ output = << >>
    /\ return_values = NotExtracted

NoStep == Step("none", NoRequest, 0, NoResponse, << >>, NoScript)
\* The IOLoop runs one handler step at a time.
LoopFree == h = NoStep

\* The headers a verb handler has set when it finishes.
ForcedHeaders == IF config.force_json THEN {JsonHeader} ELSE {}

\* --------------------------------------------------------------- handlers
\* A request whose prepare did not let the verb method run.
Stopped(rq, p) ==
    /\ h' = Step("dispatch", rq, 0, p.response, p.steps, NoScript)
    /\ UNCHANGED <<config, scripts, waiting, output, return_values>>

\* ScriptDetailsHandler.options
options ==
    /\ LoopFree
    /\ \E rq \in Requests :
        /\ rq.route = "/scripts/{name}" /\ rq.verb = "OPTIONS"
        /\ LET p == prepare(config, rq)
               f == get_script(scripts, rq.script_name, "options")
           IN  IF ~p.go THEN Stopped(rq, p)
               ELSE /\ h' = IF f.exc # 0
                       THEN Step("dispatch", rq, 0, write_error(f.exc, f.message),
                                 p.steps \o <<"options", "get_script">>, NoScript)
                       ELSE Step("dispatch", rq, 0,
                                 finish({}, [kind |-> "script", script |-> f.script]),
                                 p.steps \o <<"options", "get_script", "metadata", "finish">>,
                                 f.script)
                    /\ UNCHANGED <<config, scripts, waiting, output, return_values>>

\* script.execute either starts the child process or raises because it
\* cannot (missing binary, permission denied).
SpawnOutcomes == {"started", "OSError"}

\* Mutant: an error of script.execute is caught and answered with an
\* envelope that holds no output.
execute_spawn_ignored(rq, params, script, set, steps) ==
    \E spawn \in SpawnOutcomes :
        IF spawn # "started"
        THEN /\ h' = Step("dispatch", rq, 0,
                          finish(set, [kind |-> "result",
                                       keys |-> {"stdout", "return_values", "retcode"},
                                       stdout |-> << >>, stderr |-> << >>,
                                       return_values |-> {}, retcode |-> 1]),
                          steps \o <<"execute", spawn, "finish">>, script)
             /\ UNCHANGED <<config, scripts, waiting, output, return_values>>
        ELSE /\ FreeSlots # {}
             /\ h' = Step("dispatch", rq, FirstFree, Response(0, set, NoChunk, 0),
                          steps \o <<"execute">>, script)
             /\ waiting' = [waiting EXCEPT ![FirstFree] =
                               [busy |-> TRUE, rq |-> Resumed(rq), script |-> script,
                                params |-> params]]
             /\ UNCHANGED <<config, scripts, output, return_values>>

\* Mutant: the script and the parameters are kept where every handler sees
\* them, so a dispatch overwrites those of the suspended handlers.
execute_shared_state(rq, params, script, set, steps) ==
    \E spawn \in SpawnOutcomes :
        IF spawn # "started"
        THEN /\ h' = Step("dispatch", rq, 0, write_error(500, << >>),
                          steps \o <<"execute", spawn>>, script)
             /\ UNCHANGED <<config, scripts, waiting, output, return_values>>
        ELSE /\ FreeSlots # {}
             /\ h' = Step("dispatch", rq, FirstFree, Response(0, set, NoChunk, 0),
                          steps \o <<"execute">>, script)
             /\ waiting' =
                    [j \in Slots |->
                       IF j = FirstFree
                       THEN [busy |-> TRUE, rq |-> Resumed(rq), script |-> script,
                             params |-> params]
                       ELSE IF waiting[j].busy
                       THEN [waiting[j] EXCEPT !.script = script, !.params = params]
                       ELSE waiting[j]]
             /\ UNCHANGED <<config, scripts, output, return_values>>

\* Mutant: the handler waits for the child process without yielding, so no
\* script is started while another one runs.
execute_blocking(rq, params, script, set, steps) ==
    /\ FreeSlots = Slots
    /\ h' = Step("dispatch", rq, FirstFree, Response(0, set, NoChunk, 0),
                 steps \o <<"execute">>, script)
    /\ waiting' = [waiting EXCEPT ![FirstFree] =
                      [busy |-> TRUE, rq |-> Resumed(rq), script |-> script,
                       params |-> params]]
    /\ UNCHANGED <<config, scripts, output, return_values>>

\* yield gen.Task(script.execute, self.params) of a verb handler that has set
\* the headers `set` and gone through `steps`: an exception of
\* script.execute is caught by no handler and answered with 500; otherwise
\* the handler is suspended, keeping its request, script and parameters.
execute(rq, params, script, set, steps) ==
    \E spawn \in SpawnOutcomes :
        IF spawn # "started"
        THEN /\ h' = Step("dispatch", rq, 0, write_error(500, << >>),
                          steps \o <<"execute", spawn>>, script)
             /\ UNCHANGED <<config, scripts, waiting, output, return_values>>
        ELSE /\ FreeSlots # {}
             /\ h' = Step("dispatch", rq, FirstFree, Response(0, set, NoChunk, 0),
                          steps \o <<"execute">>, script)
             /\ waiting' = [waiting EXCEPT ![FirstFree] =
                               [busy |-> TRUE, rq |-> Resumed(rq), script |-> script,
                                params |-> params]]
             /\ UNCHANGED <<config, scripts, output, return_values>>

\* ScriptDetailsHandler.get up to its yield.
get ==
    /\ LoopFree
    /\ \E rq \in Requests :
        /\ rq.route = "/scripts/{name}" /\ rq.verb = "GET"
        /\ LET p   == prepare(config, rq)
               set == IF config.force_json THEN {JsonHeader} ELSE {}
               f   == get_script(scripts, rq.script_name, "get")
           IN  IF ~p.go THEN Stopped(rq, p)
               ELSE IF f.exc # 0
               THEN /\ h' = Step("dispatch", rq, 0, write_error(f.exc, f.message),
                                 p.steps \o <<"get", "get_script">>, NoScript)
                    /\ UNCHANGED <<config, scripts, waiting, output, return_values>>
               ELSE execute(rq, p.params, f.script, set,
                            p.steps \o <<"get", "get_script">>)
\* ScriptDetailsHandler.delete up to its yield.
delete ==
    /\ LoopFree
    /\ \E rq \in Requests :
        /\ rq.route = "/scripts/{name}" /\ rq.verb = "DELETE"
        /\ LET p   == prepare(config, rq)
               set == IF config.force_json THEN {JsonHeader} ELSE {}
               f   == get_script(scripts, rq.script_name, "delete")
           IN  IF ~p.go THEN Stopped(rq, p)
               ELSE IF f.exc # 0
               THEN /\ h' = Step("dispatch", rq, 0, write_error(f.exc, f.message),
                                 p.steps \o <<"delete", "get_script">>, NoScript)
                    /\ UNCHANGED <<config, scripts, waiting, output, return_values>>
               ELSE execute(rq, p.params, f.script, set,
                            p.steps \o <<"delete", "get_script">>)
\* ScriptDetailsHandler.put up to its yield.
put ==
    /\ LoopFree
    /\ \E rq \in Requests :
        /\ rq.route = "/scripts/{name}" /\ rq.verb = "PUT"
        /\ LET p   == prepare(config, rq)
               set == IF config.force_json THEN {JsonHeader} ELSE {}
               f   == get_script(scripts, rq.script_name, "put")
           IN  IF ~p.go THEN Stopped(rq, p)
               ELSE IF f.exc # 0
               THEN /\ h' = Step("dispatch", rq, 0, write_error(f.exc, f.message),
                                 p.steps \o <<"put", "get_script">>, NoScript)
                    /\ UNCHANGED <<config, scripts, waiting, output, return_values>>
               ELSE execute(rq, p.params, f.script, set,
                            p.steps \o <<"put", "get_script">>)
\* Mutant: the copy of the handler for 'post' still looks the script up
\* under 'get'.
post_copied_from_get ==
    /\ LoopFree
    /\ \E rq \in Requests :
        /\ rq.route = "/scripts/{name}" /\ rq.verb = "POST"
        /\ LET p   == prepare(config, rq)
               set == IF config.force_json THEN {JsonHeader} ELSE {}
               f   == get_script(scripts, rq.script_name, "get")
           IN  IF ~p.go THEN Stopped(rq, p)
               ELSE IF f.exc # 0
               THEN /\ h' = Step("dispatch", rq, 0, write_error(f.exc, f.message),
                                 p.steps \o <<"post", "get_script">>, NoScript)
                    /\ UNCHANGED <<config, scripts, waiting, output, return_values>>
               ELSE execute(rq, p.params, f.script, set,
                            p.steps \o <<"post", "get_script">>)
\* ScriptDetailsHandler.post up to its yield.
post ==
    /\ LoopFree
    /\ \E rq \in Requests :
        /\ rq.route = "/scripts/{name}" /\ rq.verb = "POST"
        /\ LET p   == prepare(config, rq)
               set == IF config.force_json THEN {JsonHeader} ELSE {}
               f   == get_script(scripts, rq.script_name, "post")
           IN  IF ~p.go THEN Stopped(rq, p)
               ELSE IF f.exc # 0
               THEN /\ h' = Step("dispatch", rq, 0, write_error(f.exc, f.message),
                                 p.steps \o <<"post", "get_script">>, NoScript)
                    /\ UNCHANGED <<config, scripts, waiting, output, return_values>>
               ELSE execute(rq, p.params, f.script, set,
                            p.steps \o <<"post", "get_script">>)

\* ScriptDetailsHandler.get from its yield on: the child process has ended
\* with retcode, stdout and (output not combined) stderr.
get_resumed(w, i, retcode, stdout, stderr) ==
    LET set == IF config.force_json THEN {JsonHeader} ELSE {}
    IN  IF w.script.output = "combined"
        THEN LET rv == find_return_values(stdout)
             IN  IF rv.exc # "none"
                 THEN Step("resume", w.rq, i, write_error(500, << >>),
                           <<"get", "find_return_values">>, w.script)
                 ELSE Step("resume", w.rq, i,
                           finish(set, [kind |-> "result",
                                        keys |-> {"stdout", "return_values", "retcode"},
                                        stdout |-> stdout, stderr |-> << >>,
                                        return_values |-> rv.values, retcode |-> retcode]),
                           <<"get", "find_return_values", "finish">>, w.script)
        ELSE LET rv == find_return_values(stdout)
             IN  IF rv.exc # "none"
                 THEN Step("resume", w.rq, i, write_error(500, << >>),
                           <<"get", "find_return_values">>, w.script)
                 ELSE Step("resume", w.rq, i,
                           finish(set, [kind |-> "result",
                                        keys |-> {"stdout", "stderr", "return_values", "retcode"},
                                        stdout |-> stdout, stderr |-> stderr,
                                        return_values |-> rv.values, retcode |-> retcode]),
                           <<"get", "find_return_values", "finish">>, w.script)
\* ScriptDetailsHandler.delete from its yield on: the child process has ended
\* with retcode, stdout and (output not combined) stderr.
delete_resumed(w, i, retcode, stdout, stderr) ==
    LET set == IF config.force_json THEN {JsonHeader} ELSE {}
    IN  IF w.script.output = "combined"
        THEN LET rv == find_return_values(stdout)
             IN  IF rv.exc # "none"
                 THEN Step("resume", w.rq, i, write_error(500, << >>),
                           <<"delete", "find_return_values">>, w.script)
                 ELSE Step("resume", w.rq, i,
                           finish(set, [kind |-> "result",
                                        keys |-> {"stdout", "return_values", "retcode"},
                                        stdout |-> stdout, stderr |-> << >>,
                                        return_values |-> rv.values, retcode |-> retcode]),
                           <<"delete", "find_return_values", "finish">>, w.script)
        ELSE LET rv == find_return_values(stdout)
             IN  IF rv.exc # "none"
                 THEN Step("resume", w.rq, i, write_error(500, << >>),
                           <<"delete", "find_return_values">>, w.script)
                 ELSE Step("resume", w.rq, i,
                           finish(set, [kind |-> "result",
                                        keys |-> {"stdout", "stderr", "return_values", "retcode"},
                                        stdout |-> stdout, stderr |-> stderr,
                                        return_values |-> rv.values, retcode |-> retcode]),
                           <<"delete", "find_return_values", "finish">>, w.script)
\* ScriptDetailsHandler.put from its yield on: the child process has ended
\* with retcode, stdout and (output not combined) stderr.
put_resumed(w, i, retcode, stdout, stderr) ==
    LET set == IF config.force_json THEN {JsonHeader} ELSE {}
    IN  IF w.script.output = "combined"
        THEN LET rv == find_return_values(stdout)
             IN  IF rv.exc # "none"
                 THEN Step("resume", w.rq, i, write_error(500, << >>),
                           <<"put", "find_return_values">>, w.script)
                 ELSE Step("resume", w.rq, i,
                           finish(set, [kind |-> "result",
                                        keys |-> {"stdout", "return_values", "retcode"},
                                        stdout |-> stdout, stderr |-> << >>,
                                        return_values |-> rv.values, retcode |-> retcode]),
                           <<"put", "find_return_values", "finish">>, w.script)
        ELSE LET rv == find_return_values(stdout)
             IN  IF rv.exc # "none"
                 THEN Step("resume", w.rq, i, write_error(500, << >>),
                           <<"put", "find_return_values">>, w.script)
                 ELSE Step("resume", w.rq, i,
                           finish(set, [kind |-> "result",
                                        keys |-> {"stdout", "stderr", "return_values", "retcode"},
                                        stdout |-> stdout, stderr |-> stderr,
                                        return_values |-> rv.values, retcode |-> retcode]),
                           <<"put", "find_return_values", "finish">>, w.script)
\* ScriptDetailsHandler.post from its yield on: the child process has ended
\* with retcode, stdout and (output not combined) stderr.
post_resumed(w, i, retcode, stdout, stderr) ==
    LET set == IF config.force_json THEN {JsonHeader} ELSE {}
    IN  IF w.script.output = "combined"
        THEN LET rv == find_return_values(stdout)
             IN  IF rv.exc # "none"
                 THEN Step("resume", w.rq, i, write_error(500, << >>),
                           <<"post", "find_return_values">>, w.script)
                 ELSE Step("resume", w.rq, i,
                           finish(set, [kind |-> "result",
                                        keys |-> {"stdout", "return_values", "retcode"},
                                        stdout |-> stdout, stderr |-> << >>,
                                        return_values |-> rv.values, retcode |-> retcode]),
                           <<"post", "find_return_values", "finish">>, w.script)
        ELSE LET rv == find_return_values(stdout)
             IN  IF rv.exc # "none"
                 THEN Step("resume", w.rq, i, write_error(500, << >>),
                           <<"post", "find_return_values">>, w.script)
                 ELSE Step("resume", w.rq, i,
                           finish(set, [kind |-> "result",
                                        keys |-> {"stdout", "stderr", "return_values", "retcode"},
                                        stdout |-> stdout, stderr |-> stderr,
                                        return_values |-> rv.values, retcode |-> retcode]),
                           <<"post", "find_return_values", "finish">>, w.script)

\* The handler suspended in a slot is the generator of the verb method that
\* was called for its request.
resumed(w, i, retcode, stdout, stderr) ==
    CASE w.rq.verb = "GET"    -> get_resumed(w, i, retcode, stdout, stderr)
      [] w.rq.verb = "DELETE" -> delete_resumed(w, i, retcode, stdout, stderr)
      [] w.rq.verb = "PUT"    -> put_resumed(w, i, retcode, stdout, stderr)
      [] w.rq.verb = "POST"   -> post_resumed(w, i, retcode, stdout, stderr)

\* Mutant: the resumed handler looks its script up again by name.
resume_reresolving(i) ==
    /\ LoopFree
    /\ waiting[i].busy
    /\ \E retcode \in Retcodes, stdout \in StdoutSamples, stderr \in StderrSamples :
        LET w == waiting[i]
            f == get_script(scripts, w.rq.script_name, lower(w.rq.verb))
        IN  h' = IF f.exc # 0
                 THEN Step("resume", w.rq, i, write_error(f.exc, f.message),
                           <<lower(w.rq.verb), "get_script">>, w.script)
                 ELSE resumed([w EXCEPT !.script = f.script], i, retcode, stdout, stderr)
    /\ waiting' = [waiting EXCEPT ![i] = IdleSlot]
    /\ UNCHANGED <<config, scripts, output, return_values>>

\* The child process of the handler suspended in slot i ends and the IOLoop
\* resumes the handler, which finishes its request.
resume(i) ==
    /\ LoopFree
    /\ waiting[i].busy
    /\ \E retcode \in Retcodes, stdout \in StdoutSamples, stderr \in StderrSamples :
        /\ (waiting[i].script.output = "combined") => (stderr = << >>)
        /\ h' = resumed(waiting[i], i, retcode, stdout, stderr)
    /\ waiting' = [waiting EXCEPT ![i] = IdleSlot]
    /\ UNCHANGED <<config, scripts, output, return_values>>

\* ScriptNamesCollectionHandler.get
script_names ==
    /\ LoopFree
    /\ \E rq \in Requests :
        /\ rq.route = "/script_names" /\ rq.verb = "GET"
        /\ LET p == prepare(config, rq)
               tags == parse_tags(rq.args)
           IN  IF ~p.go THEN Stopped(rq, p)
               ELSE /\ h' = [Step("dispatch", rq, 0,
                                  finish({}, [kind |-> "script_names",
                                              names |-> {d.name : d \in selected(scripts, tags)}]),
                                  p.steps \o <<"script_names", "name", "finish">>, NoScript)
                             EXCEPT !.tags = tags]
                    /\ UNCHANGED <<config, scripts, waiting, output, return_values>>

\* ScriptCollectionHandler.get
script_collection ==
    /\ LoopFree
    /\ \E rq \in Requests :
        /\ rq.route = "/scripts" /\ rq.verb = "GET"
        /\ LET p == prepare(config, rq)
               tags == parse_tags(rq.args)
           IN  IF ~p.go THEN Stopped(rq, p)
               ELSE /\ h' = [Step("dispatch", rq, 0,
                                  finish({}, [kind |-> "scripts",
                                              scripts |-> selected(scripts, tags)]),
                                  p.steps \o <<"scripts", "metadata", "finish">>, NoScript)
                             EXCEPT !.tags = tags]
                    /\ UNCHANGED <<config, scripts, waiting, output, return_values>>

\* create_collection(config['directory']): the collection of the scripts
\* the directory holds at that moment.
create_collection == Registries

\* Mutant: the new descriptors are added to the collection in use.
reload_merging ==
    /\ LoopFree
    /\ \E rq \in Requests, built \in create_collection :
        /\ rq.route = "/reload" /\ rq.verb = "POST"
        /\ LET p == prepare(config, rq)
           IN  IF ~p.go THEN Stopped(rq, p)
               ELSE /\ scripts' = scripts \cup built
                    /\ h' = Step("dispatch", rq, 0,
                                 finish({}, [kind |-> "status", status |-> "ok"]),
                                 p.steps \o <<"reload", "create_collection", "finish">>, NoScript)
                    /\ UNCHANGED <<config, waiting, output, return_values>>
\* ReloadHandler.post
reload ==
    /\ LoopFree
    /\ \E rq \in Requests, built \in create_collection :
        /\ rq.route = "/reload" /\ rq.verb = "POST"
        /\ LET p == prepare(config, rq)
           IN  IF ~p.go THEN Stopped(rq, p)
               ELSE /\ scripts' = built
                    /\ h' = Step("dispatch", rq, 0,
                                 finish({}, [kind |-> "status", status |-> "ok"]),
                                 p.steps \o <<"reload", "create_collection", "finish">>, NoScript)
                    /\ UNCHANGED <<config, waiting, output, return_values>>

\* The verbs a handler class defines.
Defined(route) ==
    CASE route = "/scripts/{name}" -> Verbs
      [] route = "/reload" -> {"POST"}
      [] OTHER -> {"GET"}

\* A verb the handler class does not define: after prepare, tornado's
\* default method raises HTTPError(405) without a message.
unimplemented ==
    /\ LoopFree
    /\ \E rq \in Requests :
        /\ rq.verb \notin Defined(rq.route)
        /\ LET p == prepare(config, rq)
           IN  IF ~p.go THEN Stopped(rq, p)
               ELSE /\ h' = Step("dispatch", rq, 0, write_error(405, NoMessage),
                                 p.steps \o <<"_unimplemented_method">>, NoScript)
                    /\ UNCHANGED <<config, scripts, waiting, output, return_values>>

\* The step returns to the IOLoop: a finished handler is dropped with its
\* request, a suspended one stays in waiting.
return_to_loop ==
    /\ ~LoopFree
    /\ h' = NoStep
    /\ UNCHANGED <<config, scripts, waiting, output, return_values>>

Next ==
    \/ options
    \/ get
    \/ delete
    \/ put
    \/ post
    \/ \E i \in Slots : resume(i)
    \/ script_names
    \/ script_collection
    \/ reload
    \/ unimplemented
    \/ return_to_loop

Spec == Init /\ [][Next]_vars

\* ------------------------------------------- find_return_values on its own
ExtractTokens == {SENTINEL, "k", EQ, SP}
ExtractLines == UNION {[1..n -> ExtractTokens] : n \in 0..MaxLineLen}
ExtractOutputs == UNION {[1..n -> ExtractLines] : n \in 0..MaxLines}

InitExtract ==
    /\ config = [passfile |-> None, force_json |-> FALSE]
    /\ scripts = {}
    /\ waiting = [i \in Slots |-> IdleSlot]
    /\ h = Step("none", NoRequest, 0, NoResponse, << >>, NoScript)
    /\ output \in ExtractOutputs
    /\ return_values = NotExtracted

\* self.find_return_values(output)
extract ==
    /\ return_values = NotExtracted
    /\ return_values' = find_return_values(output)
    /\ UNCHANGED <<config, scripts, waiting, h, output>>

SpecExtract == InitExtract /\ [][extract]_vars

\* ================================================================ claims
Dispatched == h.step = "dispatch"
Resumption == h.step = "resume"
Did(x) == \E i \in 1..Len(h.steps) : h.steps[i] = x
\* prepare handed the request to the method of its verb.
MethodRan ==
    \E x \in {"options", "get", "post", "put", "delete", "script_names", "scripts",
              "reload", "_unimplemented_method"} : Did(x)
Registered(n) == \E d \in scripts : d.name = n
Declared(n) == (CHOOSE d \in scripts : d.name = n).http_method
ToDetails == Dispatched /\ h.rq.route = "/scripts/{name}"
FourVerbs == {"GET", "POST", "PUT", "DELETE"}
VerbOf(m) ==
    CASE m = "get" -> "GET" [] m = "post" -> "POST" [] m = "put" -> "PUT" [] OTHER -> "DELETE"
Status == h.response.status
IsError(code) ==
    /\ Status = code
    /\ h.response.chunk.kind = "error"
    /\ h.response.chunk.code = code

\* C1: a request for a registered script that reaches its verb method is
\* executed exactly when the verb is the script's declared method; with
\* another of the four verbs it is answered 405 with a message that names
\* the script and the declared method in upper case, and nothing is
\* executed.  No request at all starts a script under another verb.
C1_MethodEnforced ==
    (ToDetails /\ h.rq.verb \in FourVerbs /\ Registered(h.rq.script_name)) =>
        LET n == h.rq.script_name
            v == VerbOf(Declared(n))
        IN  /\ Did("execute") => (h.rq.verb = v /\ MethodRan)
            /\ (MethodRan /\ h.rq.verb = v) =>
                   /\ Did("execute")
                   /\ h.script.name = n
                   /\ h.script.http_method = Declared(n)
                   /\ ~Did("OSError") =>
                          /\ Status = 0
                          /\ h.slot \in Slots
                          /\ waiting[h.slot].busy
                          /\ waiting[h.slot].script.name = n
                          /\ waiting[h.slot].script.http_method = Declared(n)
            /\ (MethodRan /\ h.rq.verb # v) =>
                   /\ ~Did("execute")
                   /\ h.slot = 0
                   /\ IsError(405)
                   /\ Contains(h.response.chunk.message, n)
                   /\ Contains(h.response.chunk.message, v)
                   /\ \A w \in FourVerbs \ {v} : ~Contains(h.response.chunk.message, w)
C1_Witness ==
    /\ ToDetails /\ h.rq.verb = "PUT" /\ Did("execute")
    /\ \E i \in Slots : waiting[i].busy /\ waiting[i].script.http_method = "delete"

\* C2 (as stated): every request for a script name that is not registered
\* is answered 404 and executes nothing.
C2_AnyRequest404 ==
    (ToDetails /\ ~Registered(h.rq.script_name)) => (Status = 404 /\ ~Did("execute"))
\* C2 (amended): a request for a script name that is not registered executes
\* nothing; when prepare hands it to its verb method, whatever the verb, it
\* is answered 404 with a message naming the script; otherwise prepare has
\* answered it with 400, 401 or 500.
C2_UnknownScript404 ==
    (ToDetails /\ ~Registered(h.rq.script_name)) =>
        /\ ~Did("execute")
        /\ h.slot = 0
        /\ MethodRan =>
               /\ IsError(404)
               /\ Contains(h.response.chunk.message, h.rq.script_name)
        /\ ~MethodRan => Status \in {400, 401, 500}
C2_Witness ==
    /\ ToDetails /\ ~Registered(h.rq.script_name) /\ MethodRan
    /\ h.rq.verb = "OPTIONS" /\ Status = 404

\* The Authorization header is no acceptable credential: absent, not of the
\* Basic scheme, or a user and password the password file does not hold.
Rejectable ==
    \/ h.rq.auth.scheme # "Basic"
    \/ <<h.rq.auth.user, h.rq.auth.password>> \notin PassfileUsers
Challenged ==
    /\ Status = 401
    /\ <<"WWW-Authenticate", "Basic realm=cloudomate">> \in h.response.headers
    /\ h.response.finished = 1

\* C3: with a password file configured, a request without acceptable
\* credentials is answered with the 401 challenge and nothing else is done
\* for it: no lookup, no execution, no reload, no listing.  (Stated for the
\* requests that reach handle_auth, their body having been accepted.)
C3_RejectedIsChallenged ==
    (Dispatched /\ Did("handle_auth") /\ config.passfile # None /\ Rejectable) =>
        /\ Challenged
        /\ ~MethodRan
        /\ ~Did("get_script") /\ ~Did("execute") /\ ~Did("create_collection")
        /\ ~Did("name") /\ ~Did("metadata")

\* C4: with a password file configured, a request with invalid Basic
\* credentials gets 401 and WWW-Authenticate: Basic realm=cloudomate,
\* whatever its route, verb, content type and body.
C4_InvalidBasicIs401 ==
    (/\ Dispatched /\ config.passfile # None
     /\ h.rq.auth.scheme = "Basic"
     /\ <<h.rq.auth.user, h.rq.auth.password>> \notin PassfileUsers) =>
        /\ Status = 401
        /\ <<"WWW-Authenticate", "Basic realm=cloudomate">> \in h.response.headers

\* C5: without a password file no step is answered with the 401 challenge,
\* the password file is never consulted, and every request whose body
\* handle_params accepted is handed to its verb method, with or without an
\* Authorization header.
C5_NoStoreNoChallenge ==
    (config.passfile = None /\ h.step # "none") =>
        /\ Status # 401
        /\ \A hd \in h.response.headers : hd[1] # "WWW-Authenticate"
        /\ ~Did("auth_challenge")
        /\ ~Did("is_user_authenticated")
        /\ (Dispatched /\ Did("handle_auth")) => MethodRan
C5_Witness ==
    /\ config.passfile = None /\ Dispatched
    /\ h.rq.auth = NoAuthHeader /\ Did("handle_auth") /\ Status = 200

\* C7: an OPTIONS request for a registered script is never answered 405 and
\* starts no execution, whatever the script's declared method; when prepare
\* hands it to the options method the answer is 200 with {script: metadata
\* of the registered descriptor}.
C7_OptionsNoEnforcement ==
    (ToDetails /\ h.rq.verb = "OPTIONS" /\ Registered(h.rq.script_name)) =>
        /\ Status # 405
        /\ ~Did("execute")
        /\ h.slot = 0
        /\ MethodRan =>
               /\ Status = 200
               /\ h.response.finished = 1
               /\ h.response.chunk.kind = "script"
               /\ h.response.chunk.script \in scripts
               /\ h.response.chunk.script.name = h.rq.script_name
C7_Witness ==
    /\ ToDetails /\ h.rq.verb = "OPTIONS" /\ MethodRan /\ Status = 200
    /\ h.response.chunk.script.http_method = "delete"

\* The written body holds the text s as a JSON string.
Holds(written, s) == written = JsonString(s)

\* C8: the body sent for an execution holds stdout and retcode as the child
\* produced them, return_values as the extractor gives them for that stdout,
\* and a stderr field exactly when the script's output is 'separate'.
C8_EnvelopeFaithful ==
    (Resumption /\ Status = 200) =>
        LET c == h.response.chunk
            w == h.response.wire
            rv == find_return_values(c.stdout).values
        IN  /\ w.kind = "result"
            /\ w.retcode = c.retcode
            /\ Len(w.stdout) = Len(c.stdout)
            /\ \A i \in 1..Len(c.stdout) : Holds(w.stdout[i], c.stdout[i])
            /\ w.return_values = {<<JsonString(p[1]), JsonString(p[2])>> : p \in rv}
            /\ ("stderr" \in w.keys) <=> (h.script.output = "separate")
            /\ {"stdout", "return_values", "retcode"} \subseteq w.keys

\* The sentinel lines of the output handed to find_return_values.
SentinelLines == {i \in 1..Len(output) : startswith(output[i], SENTINEL)}
KeyAt(i) == LineItems(output[i])[1]
ValueAt(i) == LineItems(output[i])[2]
Extracted == return_values # NotExtracted /\ return_values.exc = "none"

\* C9: when several sentinel lines carry the same key, the mapping holds for
\* that key the value of the last of them, and one entry per distinct key.
C9_LastOccurrenceWins ==
    Extracted =>
        /\ \A i \in SentinelLines :
               LET same == {j \in SentinelLines : KeyAt(j) = KeyAt(i)}
                   last == CHOOSE j \in same : \A m \in same : m <= j
               IN  {p \in return_values.values : p[1] = KeyAt(i)}
                       = {<<KeyAt(i), ValueAt(last)>>}
        /\ DictKeys(return_values.values) = {KeyAt(i) : i \in SentinelLines}
        /\ Cardinality(return_values.values) = Cardinality(DictKeys(return_values.values))
C9_Witness ==
    /\ Extracted
    /\ \E i, j \in SentinelLines :
           i < j /\ KeyAt(i) = KeyAt(j) /\ ValueAt(i) # ValueAt(j)
           /\ <<KeyAt(j), ValueAt(j)>> \in return_values.values

\* The text after the sentinel prefix of line i, and its parts before and
\* after the first '='.
Remainder(i) == Tail(output[i])
FirstEq(s) == CHOOSE j \in 1..Len(s) : s[j] = EQ /\ \A m \in 1..(j - 1) : s[m] # EQ
KeyByFirstEq(i) == strip(Slice(Remainder(i), 1, FirstEq(Remainder(i)) - 1))
ValueByFirstEq(i) ==
    strip(Slice(Remainder(i), FirstEq(Remainder(i)) + 1, Len(Remainder(i))))

\* C10: every sentinel line is split on its first '=' only, so that an
\* output whose sentinel lines all hold an '=' is extracted without error,
\* each line giving the trimmed text before the first '=' as key and the
\* whole trimmed text after it, further '=' included, as value.  (Stated
\* for lines that hold the sentinel as their prefix only.)
C10_SplitOnFirstEq ==
    (/\ return_values # NotExtracted
     /\ \A i \in SentinelLines :
            Contains(Remainder(i), EQ) /\ ~Contains(Remainder(i), SENTINEL)) =>
        /\ return_values.exc = "none"
        /\ \A i \in SentinelLines :
               LET same == {j \in SentinelLines : KeyByFirstEq(j) = KeyByFirstEq(i)}
                   last == CHOOSE j \in same : \A m \in same : m <= j
               IN  <<KeyByFirstEq(i), ValueByFirstEq(last)>> \in return_values.values

\* The tag query that "the first group present and non-empty" selects.
NonEmptyArg(a) == a.present /\ a.value # << >>
FirstNonEmpty(args) ==
    IF NonEmptyArg(args.tags) THEN [NoTags EXCEPT !.tags = split_commas(args.tags.value)]
    ELSE IF NonEmptyArg(args.not_tags)
    THEN [NoTags EXCEPT !.not_tags = split_commas(args.not_tags.value)]
    ELSE IF NonEmptyArg(args.any_tags)
    THEN [NoTags EXCEPT !.any_tags = split_commas(args.any_tags.value)]
    ELSE NoTags
Listed == Dispatched /\ (Did("script_names") \/ Did("scripts"))

\* C11: on /script_names and on /scripts alike, the tag query handed to the
\* registry is the one of the first of tags, not_tags, any_tags that is
\* present and non-empty: at most one group is non-empty, a group present
\* but empty is passed over for a later non-empty one, and with no group
\* present the three are empty.
C11_FirstNonEmptyGroup ==
    Listed =>
        /\ h.tags = FirstNonEmpty(h.rq.args)
        /\ Cardinality({g \in {"tags", "not_tags", "any_tags"} : h.tags[g] # {}}) <= 1
        /\ (h.rq.args = NoArgs) => (h.tags = NoTags)

\* What a listing step answered with, as a set of descriptors or of names.
ListingOf(registry) ==
    IF h.response.chunk.kind = "script_names"
    THEN h.response.chunk.names = {d.name : d \in selected(registry, h.tags)}
    ELSE /\ h.response.chunk.kind = "scripts"
         /\ h.response.chunk.scripts = selected(registry, h.tags)

\* C12: whatever requests, reloads and suspended executions came before, the
\* collection in use is one whole collection as create_collection built it,
\* never a mixture of two, and a listing is answered from the collection in
\* use at that moment and from nothing else.
C12_ReloadIsAtomic ==
    /\ scripts \in create_collection
    /\ Listed => (Status = 200 /\ ListingOf(scripts))
    /\ (Dispatched /\ Did("create_collection")) =>
           (Status = 200 /\ h.response.chunk.kind = "status")
C12_Witness ==
    /\ Listed /\ h.rq.route = "/script_names" /\ h.response.chunk.names # {}
    /\ ListingOf(scripts)
    /\ \E i \in Slots : waiting[i].busy /\ waiting[i].script \notin scripts

\* C13: a suspended execution keeps the descriptor that get_script gave it
\* at dispatch (the one of its own name and verb), whatever reloads happen
\* meanwhile; when it resumes it looks nothing up again, is never answered
\* 404 or 405, and its envelope has a stderr field exactly when that
\* descriptor's output is 'separate'.
C13_DescriptorSnapshot ==
    /\ \A i \in Slots : waiting[i].busy =>
           /\ waiting[i].script.name = waiting[i].rq.script_name
           /\ waiting[i].script.http_method = lower(waiting[i].rq.verb)
    /\ Resumption =>
           /\ h.script.name = h.rq.script_name
           /\ h.script.http_method = lower(h.rq.verb)
           /\ ~Did("get_script")
           /\ Status \in {200, 500}
           /\ (Status = 200) =>
                  /\ h.response.chunk.kind = "result"
                  /\ ("stderr" \in h.response.chunk.keys) <=> (h.script.output = "separate")
                  /\ ("stderr" \in h.response.wire.keys) <=> (h.script.output = "separate")
C13_Witness ==
    /\ Resumption /\ Status = 200
    /\ h.script.name = "alpha" /\ h.script.output = "combined"
    /\ "stderr" \notin h.response.wire.keys
    /\ \E d \in scripts :
           d.name = "alpha" /\ d.output = "separate" /\ d.http_method # h.script.http_method

Suspended == {i \in Slots : waiting[i].busy}
Answered200 == h'.response.status = 200 /\ h'.response.finished = 1
\* A script of the collection in use declares the method m.
Declares(m) == \E d \in scripts : d.http_method = m

\* C14: whenever the IOLoop is between two steps with executions suspended
\* on their child processes, a listing, an OPTIONS request and a reload can
\* each be dispatched and answered, another script can be started (as long
\* as fewer than MaxInFlight are suspended), and any one of the suspended
\* executions can be the next to complete.
C14_SuspensionNotBlock ==
    (LoopFree /\ Suspended # {}) =>
        /\ ENABLED (script_names /\ Answered200)
        /\ ENABLED (script_collection /\ Answered200)
        /\ ENABLED (options /\ Answered200)
        /\ ENABLED (reload /\ Answered200)
        /\ (FreeSlots # {}) =>
               \/ Declares("get") /\ ENABLED (get /\ h'.slot \in FreeSlots)
               \/ Declares("post") /\ ENABLED (post /\ h'.slot \in FreeSlots)
               \/ Declares("put") /\ ENABLED (put /\ h'.slot \in FreeSlots)
               \/ Declares("delete") /\ ENABLED (delete /\ h'.slot \in FreeSlots)
        /\ \A i \in Suspended : ENABLED resume(i)
C14_Witness ==
    /\ Resumption /\ h.slot = 2 /\ Status = 200
    /\ waiting[1].busy /\ ~waiting[2].busy

ErrorStatuses == {400, 401, 404, 405, 500}
\* The detail of an error: the message its exception carries, or none.
DetailOf(message) == IF message = NoMessage THEN << >> ELSE message

\* C15: every error response has the JSON body {error: {code, type,
\* message}} with the status as code, the standard name of the status as
\* type and the detail, or the empty string, as message.  (Stated for the
\* error responses that write_error writes.)
C15_ErrorBodyShape ==
    (h.step # "none" /\ Status \in ErrorStatuses /\ h.response.chunk.kind = "error") =>
        /\ h.response.wire.kind = "error"
        /\ JsonHeader \in h.response.headers
        /\ h.response.wire.code = Status
        /\ h.response.wire.type = JsonString(responses(Status))
        /\ h.response.wire.message = JsonString(DetailOf(h.response.chunk.message))

\* The body of the request being dispatched is selected for JSON parsing:
\* the content type is application/json, with parameters or without, the
\* header is absent, or force_json is on.
JsonSelected ==
    \/ h.rq.ctype \in {NoHeader, <<JSON>>, <<JSON, "; charset=UTF-8">>}
    \/ config.force_json
Malformed == h.rq.body.text = "{"

\* C16: a request whose content type is not JSON, force_json being off, is
\* answered 400 before any lookup or execution; a body selected for JSON
\* parsing is parsed, a well-formed one letting the request on to the
\* credential gate and a malformed one being answered 400.
C16_BodyHandling ==
    Dispatched =>
        /\ ~JsonSelected =>
               /\ IsError(400)
               /\ ~MethodRan /\ ~Did("get_script") /\ ~Did("execute")
        /\ (JsonSelected /\ h.rq.body.text = "{}") => Did("handle_auth")
        /\ (JsonSelected /\ Malformed) => (Status = 400 /\ ~MethodRan)

SpawnFailed == Dispatched /\ Did("execute") /\ Did("OSError")

\* C17: when script.execute cannot run the script, the request is answered
\* with a 5xx error body and nothing else: no envelope, no stdout, retcode
\* or return_values, and no suspended handler is left behind that could
\* send one later.  Conversely every envelope sent stems from an execution
\* that was started.
C17_SpawnFailureIs5xx ==
    /\ SpawnFailed =>
           /\ Status = 500
           /\ h.response.finished = 1
           /\ h.response.chunk.kind = "error"
           /\ h.response.wire.kind = "error"
           /\ h.slot = 0
           /\ ~Did("finish") /\ ~Did("find_return_values")
    /\ (h.step # "none" /\ h.response.chunk.kind = "result") =>
           (Resumption /\ ~Did("OSError"))
C17_Witness ==
    /\ SpawnFailed /\ Status = 500 /\ h.script.name = "beta"
    /\ \E i \in Slots : waiting[i].busy

\* The steps of the handler with the name of its own verb method blanked.
VerbBlind(steps) ==
    [i \in 1..Len(steps) |-> IF steps[i] = lower(h.rq.verb) THEN "verb" ELSE steps[i]]
\* A verb handler serving a script that declares the handler's verb.
OwnVerb ==
    /\ h.step # "none"
    /\ h.rq.verb \in FourVerbs
    /\ Did(lower(h.rq.verb))
    /\ h.script # NoScript

\* C18: each of the four handlers get, post, put and delete, serving a
\* script that declares its verb, goes through steps and leaves a response
\* in which the verb does not occur: they are fixed by force_json, the
\* script's output mode (either mode under every verb) and the outcome of
\* the execution alone, so handler V on a script declaring V and handler W
\* on a script declaring W agree.
C18_VerbHandlersEquivalent ==
    OwnVerb =>
        /\ h.script.http_method = lower(h.rq.verb)
        /\ h.script.name = h.rq.script_name
        /\ (Dispatched /\ ~Did("OSError")) =>
               /\ VerbBlind(h.steps) =
                      <<"handle_params", "handle_auth", "verb", "get_script", "execute">>
               /\ h.response = Response(0, ForcedHeaders, NoChunk, 0)
               /\ h.slot \in Slots /\ waiting[h.slot].script = h.script
        /\ (Dispatched /\ Did("OSError")) =>
               /\ VerbBlind(h.steps) =
                      <<"handle_params", "handle_auth", "verb", "get_script", "execute",
                        "OSError">>
               /\ h.response = write_error(500, << >>)
        /\ (Resumption /\ Status = 200) =>
               /\ VerbBlind(h.steps) = <<"verb", "find_return_values", "finish">>
               /\ h.response.headers = ForcedHeaders \cup {JsonHeader}
               /\ h.response.chunk.keys =
                      IF h.script.output = "combined"
                      THEN {"stdout", "return_values", "retcode"}
                      ELSE {"stdout", "stderr", "return_values", "retcode"}
               /\ h.response.chunk.return_values =
                      find_return_values(h.response.chunk.stdout).values
        /\ (Resumption /\ Status # 200) =>
               /\ VerbBlind(h.steps) = <<"verb", "find_return_values">>
               /\ h.response = write_error(500, << >>)
C18_Witness ==
    /\ OwnVerb /\ Resumption /\ Status = 200 /\ h.rq.verb = "DELETE"
    /\ h.script.output = "combined"
    /\ \E i \in Slots :
           /\ waiting[i].busy /\ waiting[i].rq.verb = "GET"
           /\ waiting[i].script.output = "separate"

\* The handler of the step is suspended on its child process.
SuspendedStep ==
    /\ Dispatched /\ Did("execute") /\ ~Did("OSError")
    /\ h.slot \in Slots /\ waiting[h.slot].busy

\* C19: a handler step leaves its request finished exactly once, except the
\* step that suspends an execution, which leaves it unfinished until the
\* child's exit code and output are reported; the step in which they are
\* reported finishes the request, with the envelope or with 500.  A request
\* ended by prepare (400, 401) or by get_script (404, 405) is finished once,
\* its verb method or its execution never being reached.
C19_FinishedOnce ==
    (h.step # "none") =>
        /\ h.response.finished \in {0, 1}
        /\ (h.response.finished = 0) <=> SuspendedStep
        /\ SuspendedStep => (Status = 0 /\ h.response.chunk = NoChunk)
        /\ Resumption =>
               /\ h.response.finished = 1
               /\ Status \in {200, 500}
               /\ h.slot \in Slots /\ ~waiting[h.slot].busy
        /\ (h.response.chunk.kind = "result") => Resumption
        /\ (Status \in {400, 401, 404, 405}) =>
               /\ Dispatched /\ h.response.finished = 1
               /\ ~Did("execute") /\ h.slot = 0
        /\ (Did("auth_challenge") \/ Status = 400) => ~MethodRan
C19_Witness ==
    /\ Resumption /\ h.response.finished = 1 /\ h.response.chunk.kind = "result"
    /\ h.response.chunk.retcode = 1 /\ h.response.chunk.stdout # << >>
    /\ ~waiting[h.slot].busy

\* What one step may change.
FrameOfStep ==
    /\ config' = config
    /\ (scripts' # scripts) =>
           /\ h'.step = "dispatch"
           /\ h'.rq.route = "/reload" /\ h'.rq.verb = "POST"
           /\ h'.response.status = 200
           /\ scripts' \in create_collection
    /\ (h'.response.status \in {400, 401, 404, 405}) =>
           (scripts' = scripts /\ waiting' = waiting)
    /\ \A i \in Slots :
           /\ (waiting[i].busy /\ waiting'[i].busy) => (waiting'[i] = waiting[i])
           /\ (waiting[i].busy /\ ~waiting'[i].busy) =>
                  /\ h'.step = "resume" /\ h'.slot = i
                  /\ h'.rq = waiting[i].rq /\ h'.script = waiting[i].script
           /\ (~waiting[i].busy /\ waiting'[i].busy) =>
                  /\ h'.step = "dispatch" /\ h'.slot = i
                  /\ waiting'[i].rq = Resumed(h'.rq)
                  /\ waiting'[i].script = h'.script
                  /\ waiting'[i].params = json_loads(h'.rq.body).value

\* C20: the collection in use is replaced by a successful POST /reload and
\* by no other step (execution, OPTIONS, listing, failed request); what a
\* handler keeps for its request (the request, its parameters, its script)
\* is written when the request is dispatched, from that request alone, is
\* left as it is by every step of another request, and is handed to the same
\* request when it resumes.
C20_FrameOfRequests == [][FrameOfStep]_vars
C20_Witness ==
    /\ Dispatched /\ Did("create_collection") /\ Status = 200
    /\ waiting[1].busy /\ waiting[2].busy
    /\ waiting[1].script.name # waiting[2].script.name
    /\ waiting[1].script \notin scripts

====
